---- MODULE Spec2Model ----
(***************************************************************************)
(* WAZP metadata editor: the three Dash callbacks of                       *)
(* src/wazp/callbacks.py (update_file_drop_output, add_rows,               *)
(* modify_rows_selection) and the helpers of src/wazp/utils.py             *)
(* (df_from_metadata_yaml_files, metadata_table_component_from_df,         *)
(* set_edited_row_checkbox_to_true, export_selected_rows_as_yaml).         *)
(*                                                                         *)
(* Strings are sequences of one-character strings, so that endswith, "in", *)
(* split, pathlib's stem and re.sub are computed character by character.   *)
(* Column ids are compared only for equality by the code and are atoms.    *)
(***************************************************************************)
EXTENDS Integers, Sequences, FiniteSets, TLC

(***************************************************************************)
(* Bounds of the model.                                                    *)
(***************************************************************************)
\* events (uploads, clicks, edits, page turns) in one session
MaxEvents == 4
\* longest table the add-rows checks start from
MaxTableRows == 2
\* longest selection list the edit-detection checks draw
MaxSelected == 1
\* rows per table page; page_size is 25 at utils.py:100, scaled down so that
\* a table longer than one page is reachable
PageSize == 2
\* longest string the pure-function checks draw
MaxStrLen == 5
\* longest snapshot the edit-detection checks draw
MaxSnapshotRows == 2
\* metadata files in the directory the aggregator is called on
MaxFiles == 2

(***************************************************************************)
(* Strings                                                                 *)
(***************************************************************************)
\* the characters used, in code-point order (str comparison, sort)
CodePoints == <<".", "/", "2", "4", "a", "b", "c", "d", "e", "g", "i", "l",
                "m", "o", "p", "t", "v", "x", "y">>

Ord(c) == CHOOSE i \in 1..Len(CodePoints) : CodePoints[i] = c

EMPTY == << >>

\* float('nan'): what pandas puts where a frame has no value
NaN == <<"nan">>

\* s.endswith(suf)
EndsWith(s, suf) ==
    /\ Len(s) >= Len(suf)
    /\ SubSeq(s, Len(s) - Len(suf) + 1, Len(s)) = suf

\* sub in s
Contains(s, sub) ==
    \E i \in 1..(Len(s) - Len(sub) + 1) : SubSeq(s, i, i + Len(sub) - 1) = sub

\* s.find(".") + 1, 0 when there is none
FirstDot(s) ==
    IF \E i \in 1..Len(s) : s[i] = "."
    THEN CHOOSE i \in 1..Len(s) :
            s[i] = "." /\ \A j \in 1..(i - 1) : s[j] # "."
    ELSE 0

\* s.rfind(".") + 1, 0 when there is none
LastDot(s) ==
    IF \E i \in 1..Len(s) : s[i] = "."
    THEN CHOOSE i \in 1..Len(s) :
            s[i] = "." /\ \A j \in (i + 1)..Len(s) : s[j] # "."
    ELSE 0

\* s.split(".")[0]
SplitFirst(s) == IF FirstDot(s) = 0 THEN s ELSE SubSeq(s, 1, FirstDot(s) - 1)

\* pathlib.PurePath(name).stem: the name without its last suffix; a leading
\* dot or a trailing dot starts no suffix
Stem(name) ==
    LET i == LastDot(name)
    IN  IF i > 1 /\ i < Len(name) THEN SubSeq(name, 1, i - 1) ELSE name

METADATA == <<"m", "e", "t", "a", "d", "a", "t", "a">>
METADATA_YAML == METADATA \o <<".", "y", "a", "m", "l">>
DOT_METADATA_YAML == <<".">> \o METADATA_YAML
DOT_AVI == <<".", "a", "v", "i">>
DOT_MP4 == <<".", "m", "p", "4">>

\* re.sub(".metadata$", "", stem): the pattern's "." matches any character
ReSubMetadata(stem) ==
    IF Len(stem) >= 9 /\ EndsWith(stem, METADATA)
    THEN SubSeq(stem, 1, Len(stem) - 9)
    ELSE stem

\* str(pl.Path(dir) / name)
PathStr(dir, name) == dir \o <<"/">> \o name

\* a < b for two str values
RECURSIVE StrLess(_, _)
StrLess(a, b) ==
    IF b = EMPTY THEN FALSE
    ELSE IF a = EMPTY THEN TRUE
    ELSE IF Head(a) = Head(b) THEN StrLess(Tail(a), Tail(b))
    ELSE Ord(Head(a)) < Ord(Head(b))

(***************************************************************************)
(* State                                                                   *)
(***************************************************************************)
VARIABLES
    dir_names,          \* names of the files in the video directory
    dir_yaml,           \* yaml file name -> [keys, val], the mapping it holds
    pandas_sorts,       \* the installed pandas sorts the keys of an outer merge
    up_content,         \* "upload-data".contents
    up_filename,        \* "upload-data".filename
    has_table,          \* "output-data-upload" holds the table and the buttons
    table_rows,         \* "metadata-table".data
    table_columns,      \* ids of "metadata-table".columns
    data_previous,      \* "metadata-table".data_previous: << >> is None
    selected_rows,      \* "metadata-table".selected_rows
    page_current,       \* page of the table on screen, from 0
    n_clicks_add_row_manually,
    n_clicks_add_rows_missing,
    n_clicks_select_all,
    n_clicks_export,
    alert_is_open,
    alert_children,
    last,               \* the event handled last and how its callback ended
    n_events,           \* events handled so far
    call,               \* the arguments of a function called on its own
    ret                 \* and what it returned

vars == <<dir_names, dir_yaml, pandas_sorts, up_content, up_filename,
          has_table, table_rows, table_columns, data_previous, selected_rows,
          page_current, n_clicks_add_row_manually, n_clicks_add_rows_missing,
          n_clicks_select_all, n_clicks_export, alert_is_open, alert_children,
          last, n_events, call, ret>>

disk_vars == <<dir_names, dir_yaml>>
upload_vars == <<up_content, up_filename>>
table_vars == <<table_rows, table_columns>>
add_click_vars == <<n_clicks_add_row_manually, n_clicks_add_rows_missing>>
selection_vars == <<selected_rows, n_clicks_select_all, n_clicks_export,
                    alert_is_open, alert_children>>

(***************************************************************************)
(* Helpers on sequences                                                    *)
(***************************************************************************)
Range(s) == {s[i] : i \in 1..Len(s)}

\* the orders in which the elements of S can be listed
Perms(S) ==
    {s \in [1..Cardinality(S) -> S] :
        \A i, j \in 1..Cardinality(S) : i # j => s[i] # s[j]}

\* the elements of S in one fixed order
RECURSIVE SetToSeq(_)
SetToSeq(S) ==
    IF S = {} THEN << >>
    ELSE LET x == CHOOSE y \in S : TRUE
         IN  <<x>> \o SetToSeq(S \ {x})

\* list(range(n)): row indices count from 0
RangeList(n) == [i \in 1..n |-> i - 1]

(***************************************************************************)
(* The uploaded configuration and the video directory                      *)
(***************************************************************************)
VIDEO_TYPES == <<DOT_AVI, DOT_MP4>>

\* the directory every decodable configuration of the model points at
VIDEOS_DIR == <<"/", "v">>

\* yaml.safe_load(base64.b64decode(content_str)) and the files it names:
\* kind is "mapping" when the content decodes to a mapping, has_* tell which
\* keys it holds, fields is the mapping read from metadata_fields_file_path
\* (fields_readable: that file opens and parses), dir_exists tells whether
\* videos_dir_path can be listed and written to
Config(kind, hasDir, hasFields, hasKey, key, readable, fields, dirExists) ==
    [kind |-> kind, has_videos_dir |-> hasDir, has_fields_path |-> hasFields,
     has_key_field |-> hasKey, key_field |-> key,
     fields_readable |-> readable, fields |-> fields,
     dir_exists |-> dirExists]

NoContent == Config("none", FALSE, FALSE, FALSE, "", FALSE, << >>, FALSE)
CfgFile == Config("mapping", TRUE, TRUE, TRUE, "File", TRUE,
                  <<"File", "Notes">>, TRUE)
CfgVideo == Config("mapping", TRUE, TRUE, TRUE, "Video", TRUE,
                   <<"Video", "Notes">>, TRUE)
CfgNoKeyField == Config("mapping", TRUE, TRUE, FALSE, "", TRUE,
                        <<"File", "Notes">>, TRUE)
CfgNoVideosDir == Config("mapping", FALSE, TRUE, TRUE, "File", TRUE,
                         <<"File", "Notes">>, TRUE)
CfgNoSchemaFile == Config("mapping", TRUE, TRUE, TRUE, "File", FALSE,
                          << >>, TRUE)
CfgNoDirectory == Config("mapping", TRUE, TRUE, TRUE, "File", TRUE,
                         <<"File", "Notes">>, FALSE)
CfgUndecodable == Config("undecodable", FALSE, FALSE, FALSE, "", FALSE,
                         << >>, FALSE)

YAML == <<"y", "a", "m", "l">>
NAME_YAML == <<"c", ".", "y", "a", "m", "l">>
NAME_TXT == <<"c", ".", "t", "x", "t">>

\* the uploads of the model: content and filename
Uploads ==
    {<<CfgFile, NAME_YAML>>, <<CfgVideo, NAME_YAML>>,
     <<CfgNoKeyField, NAME_YAML>>, <<CfgNoVideosDir, NAME_YAML>>,
     <<CfgNoSchemaFile, NAME_YAML>>, <<CfgNoDirectory, NAME_YAML>>,
     <<CfgUndecodable, NAME_YAML>>, <<CfgFile, NAME_TXT>>,
     <<CfgUndecodable, NAME_TXT>>}

\* str(f).endswith("metadata.yaml") for f in pl.Path(dir).iterdir()
IsMetadataFile(dir, name) == EndsWith(PathStr(dir, name), METADATA_YAML)

\* the elif branch: any(v in str(f) for v in VIDEO_TYPES)
IsVideoFile(dir, name) ==
    /\ ~IsMetadataFile(dir, name)
    /\ \E i \in 1..Len(VIDEO_TYPES) : Contains(PathStr(dir, name), VIDEO_TYPES[i])

\* a dict: its keys in insertion order and its values
Dict(keys, val) == [keys |-> keys, val |-> val]

\* {c: "" for c in columns}
EmptyRow(columns) == [c \in Range(columns) |-> EMPTY]

(***************************************************************************)
(* utils.df_from_metadata_yaml_files and metadata_table_component_from_df  *)
(***************************************************************************)
\* the columns of pd.concat: every key, in the order of first appearance
RECURSIVE ConcatColumns(_)
ConcatColumns(dicts) ==
    IF dicts = << >> THEN << >>
    ELSE LET first == Head(dicts).keys
             rest == ConcatColumns(Tail(dicts))
         IN  first \o SelectSeq(rest, LAMBDA c : c \notin Range(first))

\* one row of the concatenated frame: NaN where the file has no such key
FrameRow(d, columns) ==
    [c \in Range(columns) |->
        IF c \in Range(d.keys) THEN d.val[c] ELSE NaN]

\* df_from_metadata_yaml_files whose branch without metadata files returns a
\* frame with the schema's columns and no row
MutAggregatorWithoutPlaceholder(listing, yaml, metadata_fields) ==
    IF listing = << >>
    THEN [columns |-> metadata_fields, rows |-> << >>]
    ELSE LET dicts == [i \in 1..Len(listing) |-> yaml[listing[i]]]
             columns == ConcatColumns(dicts)
         IN  [columns |-> columns,
              rows |-> [i \in 1..Len(dicts) |-> FrameRow(dicts[i], columns)]]

\* listing: the metadata files in the order iterdir yields them;
\* the result is the frame's columns and its records
df_from_metadata_yaml_files(listing, yaml, metadata_fields) ==
    IF listing = << >>
    THEN [columns |-> metadata_fields,
          rows |-> IF metadata_fields = << >> THEN << >>
                   ELSE <<EmptyRow(metadata_fields)>>]
    ELSE LET dicts == [i \in 1..Len(listing) |-> yaml[listing[i]]]
             columns == ConcatColumns(dicts)
         IN  [columns |-> columns,
              rows |-> [i \in 1..Len(dicts) |-> FrameRow(dicts[i], columns)]]

\* the DataTable built from the frame: data and columns (no column id of the
\* model contains "date", so the strftime of lines 64-68 changes nothing)
metadata_table_component_from_df(df) ==
    [data |-> df.rows, columns |-> df.columns]

(***************************************************************************)
(* callbacks.add_rows                                                      *)
(***************************************************************************)
\* the orders iterdir may yield the directory in: the entries of `relevant`
\* in any order; the order of the other entries changes no result
Listings(names, relevant) ==
    {s \o SetToSeq(names \ relevant) : s \in Perms(names \cap relevant)}

\* lines 141-149: the stems of the metadata files of the listing
MetadataStems(dir, listing) ==
    {ReSubMetadata(Stem(listing[i])) :
        i \in {j \in 1..Len(listing) : IsMetadataFile(dir, listing[j])}}

\* lines 150-155: f.name of the videos without metadata and not in the table
VideosWithoutMetadata(dir, listing, list_files_in_tbl) ==
    SelectSeq(listing,
              LAMBDA f : /\ IsVideoFile(dir, f)
                         /\ Stem(f) \notin MetadataStems(dir, listing)
                         /\ f \notin Range(list_files_in_tbl))

\* RowForVideo that builds the row from the File column alone
MutRowForVideoFileOnly(columns, vid) ==
    [c \in Range(columns) \cap {"File"} |-> vid]

\* lines 159-164: the row appended for a video
RowForVideo(columns, vid) ==
    [c \in Range(columns) |-> IF c = "File" THEN vid ELSE EMPTY]

\* AddRowsMissing without lines 170-171: the placeholder row is kept
MutAddRowsMissingKeepsPlaceholder(n_missing, rows, columns, content, listing) ==
    LET list_files_in_tbl ==
            [i \in 1..Len(rows) |-> rows[i][content.key_field]]
        vids == VideosWithoutMetadata(VIDEOS_DIR, listing, list_files_in_tbl)
    IN  [raised |-> FALSE,
         rows |-> rows \o [i \in 1..Len(vids) |->
                              RowForVideo(columns, vids[i])],
         n_missing |-> IF vids = << >> THEN n_missing ELSE 0]

\* lines 128-171, entered when n_clicks_add_rows_missing > 0 and there are
\* columns; rows is the table after the manual part
AddRowsMissing(n_missing, rows, columns, content, listing) ==
    IF \/ content.kind # "mapping"
       \/ ~content.has_videos_dir
       \/ (rows # << >> /\ ~content.has_key_field)
       \/ (rows # << >> /\ content.key_field \notin Range(columns))
       \/ ~content.dir_exists
    THEN [raised |-> TRUE, rows |-> rows, n_missing |-> n_missing]
    ELSE LET list_files_in_tbl ==
                 [i \in 1..Len(rows) |-> rows[i][content.key_field]]
             vids == VideosWithoutMetadata(VIDEOS_DIR, listing,
                                           list_files_in_tbl)
             appended == rows \o [i \in 1..Len(vids) |->
                                     RowForVideo(columns, vids[i])]
         IN  [raised |-> FALSE,
              rows |-> IF list_files_in_tbl = <<EMPTY>>
                       THEN Tail(appended) ELSE appended,
              n_missing |-> IF vids = << >> THEN n_missing ELSE 0]

\* the whole callback: what it returns, or that it raised
add_rows(n_manual, n_missing, rows, columns, content, listing) ==
    LET manual == n_manual > 0 /\ columns # << >>
        rows1 == IF manual THEN Append(rows, EmptyRow(columns)) ELSE rows
        n_manual1 == IF manual THEN 0 ELSE n_manual
    IN  IF n_missing > 0 /\ columns # << >>
        THEN LET m == AddRowsMissing(n_missing, rows1, columns, content,
                                     listing)
             IN  [raised |-> m.raised, rows |-> m.rows,
                  n_manual |-> n_manual1, n_missing |-> m.n_missing]
        ELSE [raised |-> FALSE, rows |-> rows1,
              n_manual |-> n_manual1, n_missing |-> n_missing]

(***************************************************************************)
(* utils.set_edited_row_checkbox_to_true                                   *)
(***************************************************************************)
\* the order of two cell values in a sorted merge: NaN sorts last
ValLess(x, y) ==
    IF x = NaN THEN FALSE
    ELSE IF y = NaN THEN TRUE
    ELSE StrLess(x, y)

\* a < b for two records, column by column
RECURSIVE RowLess(_, _, _)
RowLess(a, b, columns) ==
    IF columns = << >> THEN FALSE
    ELSE LET c == Head(columns)
         IN  IF a[c] = b[c] THEN RowLess(a, b, Tail(columns))
             ELSE ValLess(a[c], b[c])

\* the records of rows, each once, in the order of first appearance
RECURSIVE Distinct(_)
Distinct(rows) ==
    IF rows = << >> THEN << >>
    ELSE LET init == Distinct(SubSeq(rows, 1, Len(rows) - 1))
             x == rows[Len(rows)]
         IN  IF x \in Range(init) THEN init ELSE Append(init, x)

\* the records of rows, each once, sorted
RECURSIVE SortRows(_, _)
SortRows(rows, columns) ==
    IF rows = << >> THEN << >>
    ELSE LET x == Head(rows)
             rest == SortRows(Tail(rows), columns)
             before == SelectSeq(rest, LAMBDA r : RowLess(r, x, columns))
             after == SelectSeq(rest, LAMBDA r : RowLess(x, r, columns))
         IN  before \o <<x>> \o after

Count(rows, r) == Cardinality({i \in 1..Len(rows) : rows[i] = r})

\* the join keys of df.merge(df_previous, how="outer") in the order of the
\* merged frame: sorted when pandas sorts an outer merge (2.2 and later),
\* otherwise the keys of the left frame and then those only in the right
\* frame, both in the order of first appearance
MergeKeys(data, previous, columns, sorts) ==
    IF sorts THEN SortRows(data \o previous, columns)
    ELSE Distinct(data \o previous)

\* the index labels of the merged frame whose _merge is "left_only": a key
\* takes lc * rc rows when both frames hold it, else lc or rc rows
RECURSIVE LeftOnlyIndex(_, _, _, _)
LeftOnlyIndex(keys, data, previous, offset) ==
    IF keys = << >> THEN << >>
    ELSE LET lc == Count(data, Head(keys))
             rc == Count(previous, Head(keys))
             n == IF lc > 0 /\ rc > 0 THEN lc * rc ELSE lc + rc
         IN  (IF rc = 0 THEN [i \in 1..lc |-> offset + i - 1] ELSE << >>)
             \o LeftOnlyIndex(Tail(keys), data, previous, offset + n)

\* df_diff.index.tolist()
DiffIndex(previous, data, columns, sorts) ==
    LeftOnlyIndex(MergeKeys(data, previous, columns, sorts),
                  data, previous, 0)

\* ExtendSelection with "=" for "+=": the earlier selection is dropped
MutExtendSelectionOverwrites(list_selected_rows, index) == index

\* lines 197-202: list_selected_rows += [i for i in ... if i not in ...]
ExtendSelection(list_selected_rows, index) ==
    list_selected_rows
    \o SelectSeq(index, LAMBDA i : i \notin Range(list_selected_rows))

\* columns is the key order of the records; the merge raises MergeError when
\* a frame has no column, which is the frame of an empty list
set_edited_row_checkbox_to_true(previous, data, list_selected_rows, columns, sorts) ==
    IF data = << >> \/ previous = << >>
    THEN [raised |-> TRUE, list |-> list_selected_rows]
    ELSE [raised |-> FALSE,
          list |-> ExtendSelection(list_selected_rows,
                                   DiffIndex(previous, data, columns, sorts))]

(***************************************************************************)
(* utils.export_selected_rows_as_yaml                                      *)
(***************************************************************************)
\* lines 232-235: the name of the file a row is written to
YamlFilename(key_value) == SplitFirst(key_value) \o DOT_METADATA_YAML

\* lines 230-237: the rows are written one after the other; a row whose key
\* value is NaN has no split and raises after the rows before it are written
RECURSIVE WriteRows(_, _, _, _, _)
WriteRows(rows, columns, key_field, names, yaml) ==
    IF rows = << >>
    THEN [raised |-> FALSE, names |-> names, yaml |-> yaml, written |-> 0]
    ELSE LET row == Head(rows)
         IN  IF row[key_field] = NaN
             THEN [raised |-> TRUE, names |-> names, yaml |-> yaml,
                   written |-> 0]
             ELSE LET f == YamlFilename(row[key_field])
                      others == [n \in DOMAIN yaml \ {f} |-> yaml[n]]
                      w == WriteRows(Tail(rows), columns, key_field,
                                     names \cup {f},
                                     others @@ (f :> Dict(columns, row)))
                  IN  [w EXCEPT !.written = @ + 1]

\* the function: what is on disk afterwards, how many files it wrote and
\* whether it raised; the except branch returns without writing
export_selected_rows_as_yaml(data, list_selected_rows, content, filename, columns, names, yaml) ==
    LET unchanged == [raised |-> FALSE, names |-> names, yaml |-> yaml,
                      written |-> 0]
        failed == [unchanged EXCEPT !.raised = TRUE]
        parsed == Contains(filename, YAML)
    IN  IF parsed /\ (\/ content.kind # "mapping"
                      \/ ~content.has_videos_dir
                      \/ ~content.has_key_field)
        THEN unchanged
        ELSE IF \E i \in Range(list_selected_rows) : i >= Len(data)
        THEN failed
        ELSE IF list_selected_rows = << >> THEN unchanged
        ELSE IF ~parsed THEN failed
        ELSE IF content.key_field \notin Range(columns) THEN failed
        ELSE IF ~content.dir_exists THEN failed
        ELSE WriteRows([i \in 1..Len(list_selected_rows) |->
                           data[list_selected_rows[i] + 1]],
                       columns, content.key_field, names, yaml)

(***************************************************************************)
(* callbacks.modify_rows_selection                                         *)
(***************************************************************************)
NO_MESSAGE == "no message"
SUCCESS_MESSAGE == "Successfully exported"

\* lines 245-253: the select-all button by the parity of its clicks
SelectAllBranch(n_clicks_sel, data_page, list_selected_rows) ==
    IF n_clicks_sel % 2 # 0 /\ n_clicks_sel > 0
    THEN RangeList(Len(data_page))
    ELSE IF n_clicks_sel % 2 = 0 /\ n_clicks_sel > 0
    THEN << >>
    ELSE list_selected_rows

\* lines 224-243, entered when the export button has clicks and rows are
\* selected: the files, then the alert, then the reset
ExportBranch(n_clicks_exp, data, list_selected_rows, content, filename, alert_state, columns, names, yaml) ==
    LET e == export_selected_rows_as_yaml(data, list_selected_rows, content,
                                          filename, columns, names, yaml)
    IN  IF \/ e.raised
           \/ \E i \in Range(list_selected_rows) : i >= Len(data)
           \/ "File" \notin Range(columns)
        THEN [raised |-> TRUE, names |-> e.names, yaml |-> e.yaml,
              written |-> e.written,
              selected |-> list_selected_rows, n_export |-> n_clicks_exp,
              alert_is_open |-> alert_state, alert_children |-> NO_MESSAGE,
              exported |-> FALSE]
        ELSE [raised |-> FALSE, names |-> e.names, yaml |-> e.yaml,
              written |-> e.written,
              selected |-> << >>, n_export |-> 0,
              alert_is_open |-> TRUE, alert_children |-> SUCCESS_MESSAGE,
              exported |-> TRUE]

\* the whole callback: its five outputs, the directory afterwards, whether
\* it raised (then no output reaches the page, but written files stay),
\* how many files it wrote and whether the export branch ran to its end
modify_rows_selection(n_clicks_sel, n_clicks_exp, previous, data, data_page, list_selected_rows, content, filename, alert_state, columns, sorts, names, yaml) ==
    LET edit == IF previous # << >>
                THEN set_edited_row_checkbox_to_true(
                         previous[1], data, list_selected_rows, columns, sorts)
                ELSE [raised |-> FALSE, list |-> list_selected_rows]
        skip == [raised |-> FALSE, names |-> names, yaml |-> yaml,
                 written |-> 0, selected |-> edit.list, n_export |-> n_clicks_exp,
                 alert_is_open |-> alert_state,
                 alert_children |-> NO_MESSAGE, exported |-> FALSE]
        x == IF ~edit.raised /\ n_clicks_exp > 0 /\ edit.list # << >>
             THEN ExportBranch(n_clicks_exp, data, edit.list, content,
                               filename, alert_state, columns, names, yaml)
             ELSE skip
    IN  [raised |-> edit.raised \/ x.raised,
         names |-> x.names, yaml |-> x.yaml, written |-> x.written,
         selected |-> SelectAllBranch(n_clicks_sel, data_page, x.selected),
         n_select_all |-> n_clicks_sel, n_export |-> x.n_export,
         alert_is_open |-> x.alert_is_open,
         alert_children |-> x.alert_children,
         exported |-> x.exported]

(***************************************************************************)
(* callbacks.update_file_drop_output                                       *)
(***************************************************************************)
\* lines 34-57: "error" is the Div of line 47, "raised" an exception past
\* the try (video_dir unbound, or a directory that cannot be listed),
\* "table" the component of lines 50-95
update_file_drop_output(content, filename, listing, yaml) ==
    LET parsed == Contains(filename, YAML)
        none == [outcome |-> "raised", data |-> << >>, columns |-> << >>]
    IN  IF parsed /\ (\/ content.kind # "mapping"
                      \/ ~content.has_videos_dir
                      \/ ~content.has_fields_path
                      \/ ~content.fields_readable)
        THEN [none EXCEPT !.outcome = "error"]
        ELSE IF ~parsed \/ ~content.dir_exists
        THEN none
        ELSE LET t == metadata_table_component_from_df(
                          df_from_metadata_yaml_files(
                              SelectSeq(listing, LAMBDA f :
                                  IsMetadataFile(VIDEOS_DIR, f)),
                              yaml, content.fields))
             IN  [outcome |-> "table", data |-> t.data,
                  columns |-> t.columns]

(***************************************************************************)
(* The session                                                             *)
(***************************************************************************)
A_MP4 == <<"a">> \o DOT_MP4
B_AVI == <<"b">> \o DOT_AVI
A_METADATA_YAML == <<"a">> \o DOT_METADATA_YAML
DONE == <<"d", "o", "n", "e">>

\* the video directory when the session starts: empty, two videos without
\* metadata, and two videos of which one has its metadata file
InitDirs ==
    {[names |-> {}, yaml |-> << >>],
     [names |-> {A_MP4, B_AVI}, yaml |-> << >>],
     [names |-> {A_MP4, B_AVI, A_METADATA_YAML},
      yaml |-> (A_METADATA_YAML :>
                  Dict(<<"File", "Notes">>,
                       [File |-> A_MP4, Notes |-> EMPTY]))]}

\* what the user may type into a cell of column c
EditValues(c) == IF c = "Notes" THEN {EMPTY, DONE} ELSE {EMPTY, A_MP4}

Event(op, raised, exported, written) ==
    [op |-> op, raised |-> raised, exported |-> exported,
     written |-> written]

\* derived_viewport_data: the rows of the page on screen
DataPage(rows, page) ==
    SubSeq(rows, page * PageSize + 1,
           IF Len(rows) < (page + 1) * PageSize THEN Len(rows)
           ELSE (page + 1) * PageSize)

\* the layout before any upload: no table, no button
NoTable ==
    /\ has_table' = FALSE
    /\ table_rows' = << >>
    /\ table_columns' = << >>
    /\ data_previous' = << >>
    /\ selected_rows' = << >>
    /\ page_current' = 0
    /\ n_clicks_add_row_manually' = 0
    /\ n_clicks_add_rows_missing' = 0
    /\ n_clicks_select_all' = 0
    /\ n_clicks_export' = 0
    /\ alert_is_open' = FALSE
    /\ alert_children' = NO_MESSAGE

Init ==
    /\ \E d \in InitDirs : dir_names = d.names /\ dir_yaml = d.yaml
    /\ pandas_sorts \in BOOLEAN
    /\ up_content = NoContent
    /\ up_filename = EMPTY
    /\ has_table = FALSE
    /\ table_rows = << >>
    /\ table_columns = << >>
    /\ data_previous = << >>
    /\ selected_rows = << >>
    /\ page_current = 0
    /\ n_clicks_add_row_manually = 0
    /\ n_clicks_add_rows_missing = 0
    /\ n_clicks_select_all = 0
    /\ n_clicks_export = 0
    /\ alert_is_open = FALSE
    /\ alert_children = NO_MESSAGE
    /\ last = Event("start", FALSE, FALSE, 0)
    /\ n_events = 0
    /\ call = << >>
    /\ ret = << >>

\* the user drops a file on "upload-data"; a callback that raises updates
\* no output, so the page keeps what it showed
Upload(content, filename) ==
    /\ n_events < MaxEvents
    /\ n_events' = n_events + 1
    /\ up_content' = content
    /\ up_filename' = filename
    /\ UNCHANGED <<disk_vars, pandas_sorts, call, ret>>
    /\ \E listing \in Listings(dir_names,
                               {f \in dir_names : IsMetadataFile(VIDEOS_DIR, f)}) :
          LET r == update_file_drop_output(content, filename, listing, dir_yaml)
          IN  /\ last' = Event("upload", r.outcome = "raised", FALSE, 0)
              /\ CASE r.outcome = "raised" ->
                        UNCHANGED <<has_table, table_vars, data_previous,
                                    page_current, add_click_vars,
                                    selection_vars>>
                   [] r.outcome = "error" -> NoTable
                   [] OTHER ->
                        /\ has_table' = TRUE
                        /\ table_rows' = r.data
                        /\ table_columns' = r.columns
                        /\ data_previous' = << >>
                        /\ selected_rows' = << >>
                        /\ page_current' = 0
                        /\ n_clicks_add_row_manually' = 0
                        /\ n_clicks_add_rows_missing' = 0
                        /\ n_clicks_select_all' = 0
                        /\ n_clicks_export' = 0
                        /\ alert_is_open' = FALSE
                        /\ alert_children' = NO_MESSAGE

\* a click on one of the two add buttons: the page raises the button's
\* n_clicks and runs add_rows with the table as State
AddRowsEvent(op, n_manual, n_missing) ==
    /\ has_table
    /\ n_events < MaxEvents
    /\ n_events' = n_events + 1
    /\ UNCHANGED <<disk_vars, pandas_sorts, upload_vars, has_table,
                   table_columns, data_previous, page_current,
                   selection_vars>>
    /\ \E listing \in Listings(dir_names,
                               {f \in dir_names : IsVideoFile(VIDEOS_DIR, f)}) :
          LET r == add_rows(n_manual, n_missing, table_rows, table_columns,
                            up_content, listing)
          IN  /\ last' = Event(op, r.raised, FALSE, 0)
              /\ IF r.raised
                 THEN /\ table_rows' = table_rows
                      /\ n_clicks_add_row_manually' = n_manual
                      /\ n_clicks_add_rows_missing' = n_missing
                 ELSE /\ table_rows' = r.rows
                      /\ n_clicks_add_row_manually' = r.n_manual
                      /\ n_clicks_add_rows_missing' = r.n_missing

AddRowManually ==
    AddRowsEvent("add_row_manually", n_clicks_add_row_manually + 1,
                    n_clicks_add_rows_missing)

AddRowsForMissing ==
    AddRowsEvent("add_rows_for_missing", n_clicks_add_row_manually,
                    n_clicks_add_rows_missing + 1)

\* an Input of modify_rows_selection changed: the callback runs on the
\* page's State; `rows` and `previous` are the table's data and
\* data_previous after the event
SelectionEvent(op, n_sel, n_exp, rows, previous) ==
    LET r == modify_rows_selection(
                 n_sel, n_exp, previous, rows,
                 DataPage(rows, page_current), selected_rows, up_content,
                 up_filename, alert_is_open, table_columns, pandas_sorts,
                 dir_names, dir_yaml)
    IN  /\ has_table
        /\ n_events < MaxEvents
        /\ n_events' = n_events + 1
        /\ UNCHANGED <<pandas_sorts, upload_vars, has_table, table_columns,
                       page_current, add_click_vars, call, ret>>
        /\ table_rows' = rows
        /\ data_previous' = previous
        /\ dir_names' = r.names
        /\ dir_yaml' = r.yaml
        /\ last' = Event(op, r.raised, r.exported, r.written)
        /\ IF r.raised
           THEN /\ selected_rows' = selected_rows
                /\ n_clicks_select_all' = n_sel
                /\ n_clicks_export' = n_exp
                /\ UNCHANGED <<alert_is_open, alert_children>>
           ELSE /\ selected_rows' = r.selected
                /\ n_clicks_select_all' = r.n_select_all
                /\ n_clicks_export' = r.n_export
                /\ alert_is_open' = r.alert_is_open
                /\ alert_children' = r.alert_children

ToggleSelectAll ==
    SelectionEvent("toggle_select_all", n_clicks_select_all + 1,
                      n_clicks_export, table_rows, data_previous)

ExportSelected ==
    SelectionEvent("export_selected", n_clicks_select_all,
                      n_clicks_export + 1, table_rows, data_previous)

\* the user types v into column c of row i: the table sets data_previous to
\* the data before the edit, which is the Input that runs the callback
EditRow(i, c, v) ==
    /\ i \in 1..Len(table_rows)
    /\ c \in Range(table_columns)
    /\ v # table_rows[i][c]
    /\ SelectionEvent("edit_row", n_clicks_select_all, n_clicks_export,
                      [table_rows EXCEPT ![i][c] = v], <<table_rows>>)

\* the user turns to another page of the table: no callback listens
ChangePage(p) ==
    /\ has_table
    /\ n_events < MaxEvents
    /\ n_events' = n_events + 1
    /\ p # page_current
    /\ p * PageSize < Len(table_rows)
    /\ page_current' = p
    /\ last' = Event("change_page", FALSE, FALSE, 0)
    /\ UNCHANGED <<disk_vars, pandas_sorts, upload_vars, has_table,
                   table_vars, data_previous, add_click_vars,
                   selection_vars, call, ret>>

Next ==
    \/ \E u \in Uploads : Upload(u[1], u[2])
    \/ AddRowManually /\ UNCHANGED <<call, ret>>
    \/ AddRowsForMissing /\ UNCHANGED <<call, ret>>
    \/ ToggleSelectAll
    \/ ExportSelected
    \/ \E i \in 1..Len(table_rows), c \in Range(table_columns) :
          \E v \in EditValues(c) : EditRow(i, c, v)
    \/ \E p \in 0..Len(table_rows) : ChangePage(p)

Spec == Init /\ [][Next]_vars

(***************************************************************************)
(* The functions on their own: the arguments are drawn in the initial      *)
(* state and one step calls the function                                   *)
(***************************************************************************)
\* the page before any upload
Idle ==
    /\ dir_names = {}
    /\ dir_yaml = << >>
    /\ pandas_sorts = FALSE
    /\ up_content = NoContent
    /\ up_filename = EMPTY
    /\ has_table = FALSE
    /\ table_rows = << >>
    /\ table_columns = << >>
    /\ data_previous = << >>
    /\ selected_rows = << >>
    /\ page_current = 0
    /\ n_clicks_add_row_manually = 0
    /\ n_clicks_add_rows_missing = 0
    /\ n_clicks_select_all = 0
    /\ n_clicks_export = 0
    /\ alert_is_open = FALSE
    /\ alert_children = NO_MESSAGE
    /\ last = Event("start", FALSE, FALSE, 0)
    /\ n_events = 0

session_vars == <<dir_names, dir_yaml, pandas_sorts, up_content, up_filename,
                  has_table, table_rows, table_columns, data_previous,
                  selected_rows, page_current, n_clicks_add_row_manually,
                  n_clicks_add_rows_missing, n_clicks_select_all,
                  n_clicks_export, alert_is_open, alert_children, last,
                  n_events>>

\* the sequences over S of length at most n
SeqsUpTo(S, n) == UNION {[1..k -> S] : k \in 0..n}

FILE_NOTES == <<"File", "Notes">>

\* records of a table with the columns File and Notes
SnapshotRows ==
    {[File |-> EMPTY, Notes |-> EMPTY],
     [File |-> A_MP4, Notes |-> EMPTY],
     [File |-> A_MP4, Notes |-> DONE]}

\* set_edited_row_checkbox_to_true on any two snapshots and any selection
InitEdit ==
    /\ Idle
    /\ ret = << >>
    /\ call \in [previous : SeqsUpTo(SnapshotRows, MaxSnapshotRows),
                 data : SeqsUpTo(SnapshotRows, MaxSnapshotRows),
                 list_selected_rows : SeqsUpTo(0..MaxSnapshotRows, MaxSelected),
                 sorts : BOOLEAN]

CallSetEdited ==
    /\ ret = << >>
    /\ ret' = <<set_edited_row_checkbox_to_true(
                    call.previous, call.data, call.list_selected_rows,
                    FILE_NOTES, call.sorts)>>
    /\ UNCHANGED <<session_vars, call>>

SpecEdit == InitEdit /\ [][CallSetEdited]_vars

\* the key values the file-name check draws: every string over a, b and the
\* dot up to MaxStrLen, and the key of the specification's example
CLIP_V2_MP4 == <<"c", "l", "i", "p", ".", "v", "2">> \o DOT_MP4
KeyValues == SeqsUpTo({"a", "b", "."}, MaxStrLen) \cup {CLIP_V2_MP4}

InitFilename ==
    /\ Idle
    /\ ret = << >>
    /\ call \in [key : KeyValues]

CallYamlFilename ==
    /\ ret = << >>
    /\ ret' = <<YamlFilename(call.key)>>
    /\ UNCHANGED <<session_vars, call>>

SpecFilename == InitFilename /\ [][CallYamlFilename]_vars

\* add_rows on any short table of a page built from CfgFile or CfgVideo
TableRowsOf(columns) ==
    [Range(columns) -> {EMPTY, A_MP4}]
    \cup {[c \in Range(columns) |-> IF c = "Notes" THEN DONE ELSE EMPTY]}

InitAddRows ==
    /\ \E d \in InitDirs : dir_names = d.names /\ dir_yaml = d.yaml
    /\ pandas_sorts = FALSE
    /\ up_content \in {CfgFile, CfgVideo}
    /\ up_filename = NAME_YAML
    /\ has_table = TRUE
    /\ table_columns = up_content.fields
    /\ table_rows \in SeqsUpTo(TableRowsOf(table_columns), MaxTableRows)
    /\ data_previous = << >>
    /\ selected_rows = << >>
    /\ page_current = 0
    /\ n_clicks_add_row_manually = 0
    /\ n_clicks_add_rows_missing = 0
    /\ n_clicks_select_all = 0
    /\ n_clicks_export = 0
    /\ alert_is_open = FALSE
    /\ alert_children = NO_MESSAGE
    /\ last = Event("upload", FALSE, FALSE, 0)
    /\ n_events = 0
    /\ call = << >>
    /\ ret = << >>

\* call keeps the table the click started from
NextAddRows ==
    \/ AddRowManually /\ call' = <<table_rows>> /\ UNCHANGED ret
    \/ AddRowsForMissing /\ call' = <<table_rows>> /\ UNCHANGED ret

SpecAddRows == InitAddRows /\ [][NextAddRows]_vars

\* the aggregator on any directory of up to MaxFiles metadata files, with or
\* without a video beside them, and any schema
MetaNames ==
    {<<c>> \o DOT_METADATA_YAML :
        c \in Range(SubSeq(<<"a", "b", "c", "d", "e">>, 1, MaxFiles))}

FileKeys == {<<"File">>, <<"File", "Notes">>, <<"Notes", "Extra">>}

FileDicts ==
    {Dict(ks, [c \in Range(ks) |-> IF c = "Notes" THEN n ELSE A_MP4]) :
        ks \in FileKeys, n \in {EMPTY, DONE}}

Schemas == {<< >>, <<"File">>, <<"File", "Notes">>}

AggregateCalls ==
    UNION {UNION {{[listing |-> l, yaml |-> y, fields |-> f] :
                      l \in Listings(n, n \cap MetaNames), f \in Schemas} :
                  y \in [n \cap MetaNames -> FileDicts]} :
           n \in SUBSET (MetaNames \cup {A_MP4})}

InitAggregate ==
    /\ Idle
    /\ ret = << >>
    /\ call \in AggregateCalls

CallAggregate ==
    /\ ret = << >>
    /\ ret' = <<df_from_metadata_yaml_files(
                    SelectSeq(call.listing,
                              LAMBDA f : IsMetadataFile(VIDEOS_DIR, f)),
                    call.yaml, call.fields)>>
    /\ UNCHANGED <<session_vars, call>>

SpecAggregate == InitAggregate /\ [][CallAggregate]_vars

\* export_selected_rows_as_yaml on a table of a page built from CfgFile, then
\* the aggregator on the directory the export left
A_AVI == <<"a">> \o DOT_AVI

ExportRows ==
    [File : {A_MP4, A_AVI, B_AVI}, Notes : {EMPTY, DONE}]

\* the selections of a table of n rows: no row twice
Selections(n) ==
    {sel \in SeqsUpTo(0..(n - 1), MaxTableRows) :
        \A i, j \in 1..Len(sel) : i # j => sel[i] # sel[j]}

InitRoundTrip ==
    /\ \E d \in InitDirs : dir_names = d.names /\ dir_yaml = d.yaml
    /\ pandas_sorts = FALSE
    /\ up_content = CfgFile
    /\ up_filename = NAME_YAML
    /\ has_table = TRUE
    /\ table_columns = FILE_NOTES
    /\ table_rows \in SeqsUpTo(ExportRows, MaxTableRows)
    /\ data_previous = << >>
    /\ selected_rows \in Selections(Len(table_rows))
    /\ page_current = 0
    /\ n_clicks_add_row_manually = 0
    /\ n_clicks_add_rows_missing = 0
    /\ n_clicks_select_all = 0
    /\ n_clicks_export = 0
    /\ alert_is_open = FALSE
    /\ alert_children = NO_MESSAGE
    /\ last = Event("upload", FALSE, FALSE, 0)
    /\ n_events = 0
    /\ call = << >>
    /\ ret = << >>

\* call keeps what the export returned
CallExport ==
    /\ call = << >>
    /\ LET e == export_selected_rows_as_yaml(
                    table_rows, selected_rows, up_content, up_filename,
                    table_columns, dir_names, dir_yaml)
       IN  /\ call' = <<[raised |-> e.raised, written |-> e.written]>>
           /\ dir_names' = e.names
           /\ dir_yaml' = e.yaml
    /\ UNCHANGED <<pandas_sorts, upload_vars, has_table, table_vars,
                   data_previous, page_current, add_click_vars,
                   selection_vars, last, n_events, ret>>

\* ret keeps the frame the aggregator builds from the directory
CallReaggregate ==
    /\ call # << >>
    /\ ret = << >>
    /\ \E listing \in Listings(dir_names,
                               {f \in dir_names : IsMetadataFile(VIDEOS_DIR, f)}) :
          ret' = <<df_from_metadata_yaml_files(
                       SelectSeq(listing,
                                 LAMBDA f : IsMetadataFile(VIDEOS_DIR, f)),
                       dir_yaml, up_content.fields)>>
    /\ UNCHANGED <<session_vars, call>>

NextRoundTrip == CallExport \/ CallReaggregate

SpecRoundTrip == InitRoundTrip /\ [][NextRoundTrip]_vars

(***************************************************************************)
(* Claims checked on the session                                           *)
(***************************************************************************)
\* C1: in every reachable state every selected index i satisfies
\* 0 <= i < len(table)
C1_SelectionIndicesValid ==
    \A i \in Range(selected_rows) : 0 <= i /\ i < Len(table_rows)

\* C2: after a click on export with rows selected has written its files, the
\* selection returned to the page is empty, whatever the select-all counter
C2_ExportClearsSelection ==
    (last.op = "export_selected" /\ last.exported /\ last.written > 0)
        => selected_rows = << >>

\* C3: the export counter is zero whenever an edit or a select-all click is
\* handled, and handling one writes no metadata file
C3_ExportNeedsNewClick ==
    [][last'.op \in {"edit_row", "toggle_select_all"}
          => (n_clicks_export = 0 /\ last'.written = 0)]_vars

\* the suffix of a file name: from its last dot on
Suffix(name) ==
    LET i == LastDot(name)
    IN  IF i > 1 /\ i < Len(name) THEN SubSeq(name, i, Len(name)) ELSE EMPTY

\* the videos C4 counts as missing metadata: a recognized extension, no
\* <stem>.metadata.yaml in the directory, not a key-field value of the table
MissingVideos(names, rows, key_field) ==
    {f \in names :
        /\ Suffix(f) \in Range(VIDEO_TYPES)
        /\ (Stem(f) \o DOT_METADATA_YAML) \notin names
        /\ \A i \in 1..Len(rows) : rows[i][key_field] # f}

\* the row C4 expects for a video: the key field holds its name
KeyedRow(columns, key_field, vid) ==
    [c \in Range(columns) |-> IF c = key_field THEN vid ELSE EMPTY]

\* C4: a click on add_rows_for_missing that returns appends exactly one row
\* per missing video, with the configured key field set to the file name and
\* every other field empty, and appends no other row
C4_OneKeyedRowPerMissingVideo ==
    [][(last'.op = "add_rows_for_missing" /\ ~last'.raised
        /\ table_rows # << >>)
          => LET key == up_content.key_field
                 want == MissingVideos(dir_names, table_rows, key)
             IN  /\ \A f \in want :
                       Count(table_rows', KeyedRow(table_columns, key, f)) = 1
                 /\ \A r \in Range(table_rows') :
                       Count(table_rows', r) > Count(table_rows, r)
                          => \E f \in want :
                                r = KeyedRow(table_columns, key, f)]_vars

\* C5: a second click on add_rows_for_missing right after a first one leaves
\* the table as the first one left it
C5_SecondRunAddsNothing ==
    [][(/\ last.op = "add_rows_for_missing" /\ ~last.raised
        /\ last'.op = "add_rows_for_missing" /\ ~last'.raised)
          => table_rows' = table_rows]_vars

\* C9: after a click on select-all the selection is all rows of the page
\* when the count is odd and empty when it is even; while the count is 0 an
\* edit keeps every index that was selected
C9_SelectAllFollowsParity ==
    [][/\ last'.op = "toggle_select_all"
          => selected_rows' =
                IF n_clicks_select_all' % 2 = 1
                THEN RangeList(Len(DataPage(table_rows', page_current')))
                ELSE << >>
       /\ (last'.op = "edit_row" /\ n_clicks_select_all' = 0
           /\ ~last'.exported)
          => Range(selected_rows) \subseteq Range(selected_rows')]_vars

C7_FlagsUnmatchedPositions ==
    (ret # << >> /\ ~ret[1].raised)
        => Range(ret[1].list) \ Range(call.list_selected_rows)
             = {i \in 0..(Len(call.data) - 1) :
                   call.data[i + 1] \notin Range(call.previous)}
               \ Range(call.list_selected_rows)

NoRepeat(list) ==
    \A i, j \in 1..Len(list) : i # j => list[i] # list[j]

\* C8: the list returned holds every index selected before the call, and no
\* index twice when the list passed in held none twice
C8_EditDetectionOnlyGrows ==
    (ret # << >> /\ ~ret[1].raised)
        => /\ Range(call.list_selected_rows) \subseteq Range(ret[1].list)
           /\ NoRepeat(call.list_selected_rows) => NoRepeat(ret[1].list)

\* a call that was passed a selection and added an index to it
C8_Witness ==
    /\ ret # << >> /\ ~ret[1].raised
    /\ call.list_selected_rows # << >>
    /\ NoRepeat(call.list_selected_rows)
    /\ Len(ret[1].list) > Len(call.list_selected_rows)

\* s1.s2...sn with n >= 2 and no empty segment
DottedName(key) ==
    /\ LastDot(key) > 1 /\ LastDot(key) < Len(key)
    /\ \A i \in 1..(Len(key) - 1) : ~(key[i] = "." /\ key[i + 1] = ".")

\* C10: the file of a key s1.s2...sn is s1...s(n-1).metadata.yaml: only the
\* text after the last dot is removed
C10_StripsOnlyLastExtension ==
    (ret # << >> /\ DottedName(call.key))
        => ret[1] = SubSeq(call.key, 1, LastDot(call.key) - 1)
                    \o DOT_METADATA_YAML

(***************************************************************************)
(* Claims on failures of the configuration                                 *)
(***************************************************************************)
\* the try block of export_selected_rows_as_yaml cannot read the directory
\* and the key field from the upload
Unparsed(content, filename) ==
    \/ ~Contains(filename, YAML)
    \/ content.kind # "mapping"
    \/ ~content.has_videos_dir
    \/ ~content.has_key_field

\* C11: when the export button is clicked while the uploaded configuration
\* cannot be parsed, no metadata file is written and the alert does not
\* show the success message
C11_UnparsedExportShowsError ==
    [][(last'.op = "export_selected" /\ Unparsed(up_content, up_filename))
          => (last'.written = 0 /\ alert_children' # SUCCESS_MESSAGE)]_vars

\* C12: the upload callback never raises: it ends with the table or with
\* the error result
C12_UploadNeverRaises ==
    last.op = "upload" => ~last.raised

(***************************************************************************)
(* Claims on the aggregator                                                *)
(***************************************************************************)
\* C13: with N >= 1 metadata files the aggregator returns N rows and its
\* columns are the schema fields together with the fields of the files
C13_AggregateRowsAndColumns ==
    (ret # << >> /\ DOMAIN call.yaml # {})
        => /\ Len(ret[1].rows) = Cardinality(DOMAIN call.yaml)
           /\ Range(ret[1].columns)
                = Range(call.fields)
                  \cup UNION {Range(call.yaml[n].keys) : n \in DOMAIN call.yaml}

\* C14 as stated: without metadata files the aggregator returns one row with
\* the schema's fields, each the empty string, whatever the schema
C14_OnePlaceholderRowAnySchema ==
    (ret # << >> /\ DOMAIN call.yaml = {})
        => /\ Len(ret[1].rows) = 1
           /\ DOMAIN ret[1].rows[1] = Range(call.fields)
           /\ \A c \in Range(call.fields) : ret[1].rows[1][c] = EMPTY

\* C14: without metadata files and with a schema of at least one field the
\* aggregator returns one row with the schema's fields, each the empty string
C14_OnePlaceholderRow ==
    (ret # << >> /\ DOMAIN call.yaml = {} /\ call.fields # << >>)
        => /\ Len(ret[1].rows) = 1
           /\ DOMAIN ret[1].rows[1] = Range(call.fields)
           /\ \A c \in Range(call.fields) : ret[1].rows[1][c] = EMPTY

\* the aggregator ran on a directory holding only a video
C14_Witness ==
    /\ ret # << >>
    /\ call.listing = <<A_MP4>>
    /\ call.fields = FILE_NOTES
    /\ ret[1].rows = <<EmptyRow(FILE_NOTES)>>

C16_RecordsMatchColumns ==
    [][/\ \A i \in 1..Len(table_rows') :
             DOMAIN table_rows'[i] = Range(table_columns')
       /\ last'.op \in {"add_row_manually", "add_rows_for_missing"}
             => table_columns' = table_columns]_vars

\* a click on add_rows_for_missing has appended the rows of the two videos
C16_Witness ==
    /\ last.op = "add_rows_for_missing" /\ ~last.raised
    /\ Len(table_rows) = 2
    /\ table_columns = FILE_NOTES
    /\ \E i \in 1..2 : table_rows[i].File = B_AVI

\* C17: with at least one column, a click on add_row_manually makes the
\* table one row longer, the new last row having every field empty
C17_ManualAddAppendsOneEmptyRow ==
    [][(last'.op = "add_row_manually" /\ table_columns # << >>)
          => table_rows' = Append(table_rows, EmptyRow(table_columns))]_vars

====
